---- MODULE Spec2Model ----
(***************************************************************************)
(* Grid pooling of trajnetbaselines/lstm/pooling.py: the batched engine    *)
(* FastPooling and the per-agent engine Pooling.                           *)
(*                                                                         *)
(* Numbers.  Positions are pairs of integers; the float not-a-number is    *)
(* the coordinate NaNCoord.  cell_side and pool_size are integers, so      *)
(* oij = rel / (cell_side / pool_size) + n * pool_size / 2 is the rational *)
(* (2*rel*pool_size + n*pool_size*cell_side) / (2*cell_side), kept as a    *)
(* numerator over that denominator.  A blurred grid holds multiples of     *)
(* 1/blur_size^2; a descriptor is kept in units of 1/Den(self).            *)
(***************************************************************************)
EXTENDS Integers, Sequences, FiniteSets, TLC

VARIABLES
    pc,            \* "new" | "ready" | "done": before __init__, after it, after forward's grid
    self,          \* the engine's attributes, set by __init__
    hidden_state,  \* forward's arguments, as passed by the caller
    obs1,
    obs2,
    descriptors,   \* the per-agent results (Pooling: each self.occupancy(...) of the loop)
    grid           \* forward's grid: [raised, rows]

vars == <<pc, self, hidden_state, obs1, obs2, descriptors, grid>>

----------------------------------------------------------------------------
\* Bounds of the model.
MaxAgents == 3
MaxCoord == 1
MaxPool == 2
MaxBlur == 2
HiddenDim == 1

\* Defaults of __init__.
DefaultN == 4
DefaultCellSide == 2

\* float('nan') as a coordinate.
NaNCoord == 999

NaNxy == <<NaNCoord, NaNCoord>>

\* xy[0] != xy[0], torch.isnan(other_xy[:, 0]): only the first coordinate is read.
IsNaN(xy) == xy[1] = NaNCoord

----------------------------------------------------------------------------
\* Sequence helpers.

\* The indices k of 1..n with keep[k], in increasing order (boolean-mask indexing).
RECURSIVE MaskUpTo(_, _)
MaskUpTo(keep, k) ==
    IF k = 0 THEN <<>>
    ELSE IF keep[k] THEN Append(MaskUpTo(keep, k - 1), k) ELSE MaskUpTo(keep, k - 1)

MaskIndices(keep) == MaskUpTo(keep, Len(keep))

\* seq[mask]: the elements of seq at the kept indices, in order.
Masked(seq, keep) ==
    LET idx == MaskIndices(keep)
    IN [k \in 1..Len(idx) |-> seq[idx[k]]] \o <<>>

\* one_cold(i, n): all True but position i.
one_cold(i, n) == [k \in 1..n |-> k # i]

Zeros(len) == [k \in 1..len |-> 0] \o <<>>

Ones(len) == [k \in 1..len |-> 1] \o <<>>

\* The difference of two points
VecSub(a, b) == <<a[1] - b[1], a[2] - b[2]>>

----------------------------------------------------------------------------
\* __init__ of both classes: the attributes, no validation of any argument.
pooling_dim(type_, hidden_dim) ==
    IF type_ = "social" THEN hidden_dim
    ELSE IF type_ = "directional" THEN 2
    ELSE 1

Init_(cls, cell_side, n, hidden_dim, type_, pool_size, blur_size, front) ==
    [cls |-> cls, cell_side |-> cell_side, n |-> n, type_ |-> type_,
     pool_size |-> pool_size, blur_size |-> blur_size,
     pooling_dim |-> pooling_dim(type_, hidden_dim), front |-> front]

NoEngine == Init_("none", 0, 0, 0, "occupancy", 0, 0, FALSE)

\* A per-agent result: a descriptor row, or an exception.
Returned(row) == [raised |-> FALSE, row |-> row]
Raised == [raised |-> TRUE, row |-> <<>>]

\* torch.zeros(self.n * self.n * self.pooling_dim)
ZeroDescriptor(s) == Zeros(s.n * s.n * s.pooling_dim)

----------------------------------------------------------------------------
\* GridIndexer.  One coordinate of oij: the rational num/den; tiny is the sign
\* of a float residue of about 1e-16 that survives only when num = 0 (front
\* mode, see Trig).
OijNeg(o) == o.num < 0 \/ (o.num = 0 /\ o.tiny < 0)

\* (oij < 0) + (oij >= self.n * self.pool_size), for one coordinate
RangeViolation(s, o) == OijNeg(o) \/ o.num >= s.n * s.pool_size * o.den

\* range_violations == 0 over both coordinates
InRange(s, oij) == ~RangeViolation(s, oij[1]) /\ ~RangeViolation(s, oij[2])

\* .long() of a coordinate that passed the range test (it is >= 0: truncation is floor)
Long(o) == o.num \div o.den

\* (oxy - xy) / (self.cell_side / self.pool_size) + self.n * self.pool_size / 2
Centred(s, r) ==
    [num |-> 2 * r * s.pool_size + s.n * s.pool_size * s.cell_side,
     den |-> 2 * s.cell_side, tiny |-> 0]

Distance(s, rel) == <<Centred(s, rel[1]), Centred(s, rel[2])>>

\* math.cos(theta), math.sin(theta) for theta = pi/2 - arctan2(dy, dx), each as
\* <<integer part, sign of the residue>>: in floating point cos(pi/2) and
\* cos(-pi/2) are 6.1e-17 and sin(pi) is 1.2e-16, not 0.  Headings along an
\* axis only (the others have irrational cosines).
Trig(dx, dy) ==
    CASE dy = 0 /\ dx >= 0 -> [ct |-> <<0, 1>>, st |-> <<1, 0>>]    \* theta = pi/2 (also dx = dy = 0)
      [] dx = 0 /\ dy > 0 -> [ct |-> <<1, 0>>, st |-> <<0, 0>>]     \* theta = 0
      [] dy = 0 /\ dx < 0 -> [ct |-> <<0, 1>>, st |-> <<-1, 0>>]    \* theta = -pi/2
      [] dx = 0 /\ dy < 0 -> [ct |-> <<-1, 0>>, st |-> <<0, 1>>]    \* theta = pi

\* torch.einsum('tc,ci->ti', relative_pos, r) with r = [[ct, st], [-st, ct]],
\* for one neighbour: <<x, y>>, each <<integer part, sign of the residue>>.
Rotate(rel, t) ==
    << <<rel[1] * t.ct[1] - rel[2] * t.st[1], rel[1] * t.ct[2] - rel[2] * t.st[2]>>,
       <<rel[1] * t.st[1] + rel[2] * t.ct[1], rel[1] * t.st[2] + rel[2] * t.ct[2]>> >>

\* The slip of centring the front grid on both axes, as the other grid is
FrontDistanceCentred(s, rot) == <<Centred(s, rot[1][1]), Centred(s, rot[2][1])>>

\* relative_pos / (cell_side / pool_size) + torch.Tensor([n * pool_size / 2, 0]):
\* the first axis is centred (adding n*pool_size/2 absorbs the residue), the
\* second starts at the ego (the residue, if any, keeps its sign).
FrontDistance(s, rot) ==
    << Centred(s, rot[1][1]),
       [num |-> rot[2][1] * s.pool_size, den |-> s.cell_side,
        tiny |-> IF rot[2][1] = 0 THEN rot[2][2] ELSE 0] >>

\* The slip of taking the second coordinate as the row
LinearIndexTransposed(s, oij) == Long(oij[2]) * s.n * s.pool_size + Long(oij[1])

\* oi = oij[:, 0] * self.n * self.pool_size + oij[:, 1]
LinearIndex(s, oij) == Long(oij[1]) * s.n * s.pool_size + Long(oij[2])

----------------------------------------------------------------------------
\* GridAggregator.  occ[oi] = other_values is an index_put_ without
\* accumulate: with an index written twice the stored value is undefined
\* (torch.Tensor.index_put_), any one of the values written there.  writes is
\* the sequence of [cell, val]; the result is the set of grids that can come out.
RECURSIVE ScatterUpTo(_, _, _, _)
ScatterUpTo(writes, cells, dim, k) ==
    IF k = 0 THEN {[c \in 0..(cells - 1) |-> Zeros(dim)]}
    ELSE LET w == writes[k]
             before == ScatterUpTo(writes, cells, dim, k - 1)
             wins == {[g EXCEPT ![w.cell] = w.val] : g \in before}
         IN IF \E j \in 1..(k - 1) : writes[j].cell = w.cell
            THEN wins \cup before
            ELSE wins

ScatterOutcomes(writes, cells, dim) == ScatterUpTo(writes, cells, dim, Len(writes))

----------------------------------------------------------------------------
\* GridPooler.
\* occ_2d[0, c, x, y] of the (m x m) view, zero outside (the blur's padding)
Occ2d(occ, m, c, x, y) ==
    IF x \in 0..(m - 1) /\ y \in 0..(m - 1) THEN occ[x * m + y][c] ELSE 0

\* The sum of occ_2d over the first k places of the (w x w) window at (x0, y0)
RECURSIVE WindowSum(_, _, _, _, _, _, _)
WindowSum(occ, m, c, x0, y0, w, k) ==
    IF k = 0 THEN 0
    ELSE Occ2d(occ, m, c, x0 + ((k - 1) \div w), y0 + ((k - 1) % w))
         + WindowSum(occ, m, c, x0, y0, w, k - 1)

\* Side of avg_pool2d(occ_2d, blur_size, 1, int(blur_size / 2)): m + 2*pad - blur_size + 1
BlurredSide(m, blur_size) ==
    IF blur_size = 0 THEN m ELSE m + 2 * (blur_size \div 2) - blur_size + 1

\* occ_blurred[0, c, x, y] in units of 1/blur_size^2 (count_include_pad=True:
\* the divisor is the whole kernel), or occ_2d itself when blur_size is 0.
Blurred(occ, m, blur_size, c, x, y) ==
    IF blur_size = 0 THEN Occ2d(occ, m, c, x, y)
    ELSE WindowSum(occ, m, c, x - (blur_size \div 2), y - (blur_size \div 2),
                   blur_size, blur_size * blur_size)

\* The sum of occ_blurred over the first k places of the (w x w) block at (x0, y0)
RECURSIVE BlockSum(_, _, _, _, _, _, _, _)
BlockSum(occ, m, blur_size, c, x0, y0, w, k) ==
    IF k = 0 THEN 0
    ELSE Blurred(occ, m, blur_size, c, x0 + ((k - 1) \div w), y0 + ((k - 1) % w))
         + BlockSum(occ, m, blur_size, c, x0, y0, w, k - 1)

\* Side of lp_pool2d(., 1, pool_size): kernel = stride = pool_size, floor mode
PooledSide(side, pool_size) == (side - pool_size) \div pool_size + 1

\* lp_pool2d with norm_type 1 is avg_pool2d times the kernel area, through
\* sign(out) * relu(abs(out)): the signed sum of the block.
\* occ_summed.view(-1): channel, then row, then column.
LpPoolFlat(occ, m, blur_size, pool_size, dim) ==
    LET q == PooledSide(BlurredSide(m, blur_size), pool_size)
    IN [e \in 1..(dim * q * q) |->
            BlockSum(occ, m, blur_size, (e - 1) \div (q * q) + 1,
                     (((e - 1) % (q * q)) \div q) * pool_size,
                     ((e - 1) % q) * pool_size,
                     pool_size, pool_size * pool_size)] \o <<>>

\* The unit of a descriptor entry: Pooling with blur_size b > 0 yields
\* multiples of 1/b^2; FastPooling never blurs.
Den(s) == IF s.cls = "Pooling" /\ s.blur_size > 0 THEN s.blur_size * s.blur_size ELSE 1

----------------------------------------------------------------------------
\* Python's None for other_values, and for other_xy / past_xy.
None == << <<>> >>

\* All the ways to take one element of each set of a sequence of sets.
RECURSIVE ChoicesUpTo(_, _)
ChoicesUpTo(sets, k) ==
    IF k = 0 THEN {<<>>}
    ELSE {Append(q, x) : q \in ChoicesUpTo(sets, k - 1), x \in sets[k]}

Choices(sets) == ChoicesUpTo(sets, Len(sets))

\* The descriptors a scatter of writes can end in (one per outcome of the scatter).
Pooled(s, writes, blur_size) ==
    LET m == s.n * s.pool_size
    IN {LpPoolFlat(occ, m, blur_size, s.pool_size, s.pooling_dim) :
            occ \in ScatterOutcomes(writes, m * m, s.pooling_dim)}

----------------------------------------------------------------------------
\* Pooling.occupancy: the results it can return for one ego.

\* mask = torch.isnan(other_xy[:, 0]) == 0
NanMask(other_xy) == [k \in 1..Len(other_xy) |-> ~IsNaN(other_xy[k])]

\* The slip of masking the positions and not the values that go with them
MaskedValuesForgotten(other_values, mask) == other_values

\* other_values = other_values[mask]
MaskedValues(other_values, mask) == Masked(other_values, mask)

\* oij of one neighbour, by self.front
PoolingOij(s, xy, oxy, past_xy) ==
    IF ~s.front
    THEN Distance(s, VecSub(oxy, xy))
    ELSE FrontDistance(s, Rotate(VecSub(oxy, xy),
                                 Trig(xy[1] - past_xy[1], xy[2] - past_xy[2])))

Pooling_occupancy(s, xy, other_xy, other_values, past_xy) ==
    IF other_xy = None \/ IsNaN(xy) \/ Len(other_xy) = 0
    THEN {Returned(ZeroDescriptor(s))}
    ELSE
    LET values0 == IF other_values = None
                   THEN [k \in 1..Len(other_xy) |-> Ones(1)]
                   ELSE other_values
        mask == NanMask(other_xy)
        oxy == Masked(other_xy, mask)
        values1 == MaskedValues(values0, mask)
    IN  IF Len(oxy) = 0 THEN {Returned(ZeroDescriptor(s))}
        ELSE IF s.pool_size = 0 THEN {Raised}  \* self.cell_side / self.pool_size: ZeroDivisionError
        ELSE
        LET oij == [k \in 1..Len(oxy) |-> PoolingOij(s, xy, oxy[k], past_xy)]
            range_mask == [k \in 1..Len(oij) |-> InRange(s, oij[k])]
            kept == Masked(oij, range_mask)
            values2 == Masked(values1, range_mask)
        IN  IF Len(kept) = 0 THEN {Returned(ZeroDescriptor(s))}
            ELSE {Returned(row) :
                    row \in Pooled(s, [k \in 1..Len(kept) |->
                                        [cell |-> LinearIndex(s, kept[k]), val |-> values2[k]]],
                                   s.blur_size)}

\* torch.stack(rows, dim=0): an empty list raises, rows of different lengths
\* raise, and so does the first row whose computation raised.
Stack(results) ==
    IF Len(results) = 0 THEN [raised |-> TRUE, rows |-> <<>>]
    ELSE IF \E i \in 1..Len(results) : results[i].raised
         THEN [raised |-> TRUE, rows |-> <<>>]
    ELSE IF \E i \in 1..Len(results) : Len(results[i].row) # Len(results[1].row)
         THEN [raised |-> TRUE, rows |-> <<>>]
    ELSE [raised |-> FALSE, rows |-> [i \in 1..Len(results) |-> results[i].row]]

\* The list comprehension stops at the first call that raises.
Evaluated(results) ==
    LET bad == {i \in 1..Len(results) : results[i].raised}
    IN IF bad = {} THEN results
       ELSE SubSeq(results, 1, CHOOSE i \in bad : \A j \in bad : i <= j)

\* (obs2 - obs1)[one_cold(i, n)] - (obs2 - obs1)[i]
RelativeVelocity(o1, o2, i) ==
    LET vel == [k \in 1..Len(o2) |-> VecSub(o2[k], o1[k])]
        others == Masked(vel, one_cold(i, Len(o2)))
    IN [k \in 1..Len(others) |-> VecSub(others[k], vel[i])]

\* The arguments of the i-th self.occupancy(...) call of each of the six loops.
PoolingValues(s, h, o1, o2, i) ==
    CASE s.type_ = "occupancy" -> None
      [] s.type_ = "directional" -> RelativeVelocity(o1, o2, i)
      [] s.type_ = "social" -> Masked(h, one_cold(i, Len(o2)))

PoolingRow(s, h, o1, o2, i) ==
    Pooling_occupancy(s, o2[i], Masked(o2, one_cold(i, Len(o2))),
                      PoolingValues(s, h, o1, o2, i),
                      IF s.front THEN o1[i] ELSE None)

\* occupancies, directional, social and their front_ variants, before the stack:
\* the sequences of per-agent results the loop can produce.
PoolingResults(s, h, o1, o2) ==
    IF s.type_ = "directional" /\ Len(o2) = 1
    THEN \* self.occupancy(obs2[0], None).unsqueeze(0)
         {<<r>> : r \in Pooling_occupancy(s, o2[1], None, None, None)}
    ELSE Choices([i \in 1..Len(o2) |-> PoolingRow(s, h, o1, o2, i)])

----------------------------------------------------------------------------
\* FastPooling.occupancy: the grids it can return for the whole step.

\* The slip of zeroing the index of a neighbour out of range and not its value
FastWriteKeepsValue(s, oij, value) ==
    IF InRange(s, oij)
    THEN [cell |-> LinearIndex(s, oij), val |-> value]
    ELSE [cell |-> 0, val |-> value]

\* oij[~range_mask] = 0; other_values[~range_mask] = 0; oi = ...: a neighbour
\* out of range is still scattered, as the value 0 into cell 0.
FastWrite(s, oij, value) ==
    IF InRange(s, oij)
    THEN [cell |-> LinearIndex(s, oij), val |-> value]
    ELSE [cell |-> 0, val |-> Zeros(s.pooling_dim)]

\* Row i of occ_summed.view(n, -1): occ_blurred = occ_2d, blur_size is not read.
FastRow(s, obs, values, i) ==
    LET relative == [k \in 1..(Len(obs) - 1) |->
                        VecSub(Masked(obs, one_cold(i, Len(obs)))[k], obs[i])]
    IN Pooled(s, [k \in 1..Len(relative) |->
                    FastWrite(s, Distance(s, relative[k]), values[k])], 0)

Fast_occupancy(s, obs, other_values) ==
    LET n == Len(obs)
    IN  IF n = 1 THEN {[raised |-> FALSE, rows |-> <<ZeroDescriptor(s)>>]}
        ELSE IF n = 0
             THEN \* relative[~torch.eye(0).bool()].reshape(0, -1, 2): RuntimeError
                  {[raised |-> TRUE, rows |-> <<>>]}
        ELSE IF s.pool_size = 0
             THEN \* self.cell_side / self.pool_size: ZeroDivisionError
                  {[raised |-> TRUE, rows |-> <<>>]}
        ELSE
        LET values == IF other_values = None
                      THEN [i \in 1..n |-> [k \in 1..(n - 1) |-> Ones(s.pooling_dim)]]
                      ELSE other_values
        IN {[raised |-> FALSE, rows |-> rows] :
                rows \in Choices([i \in 1..n |-> FastRow(s, obs, values[i], i)])}

\* FastPooling.directional
Fast_directional(s, o1, o2) ==
    IF Len(o2) = 1 THEN Fast_occupancy(s, o2, None)
    ELSE IF Len(o2) = 0
         THEN \* relative[~torch.eye(0).bool()].reshape(0, -1, 2): RuntimeError
              {[raised |-> TRUE, rows |-> <<>>]}
    ELSE Fast_occupancy(s, o2, [i \in 1..Len(o2) |-> RelativeVelocity(o1, o2, i)])

\* FastPooling.social
Fast_social(s, h, obs) ==
    IF Len(obs) = 1 THEN Fast_occupancy(s, obs, None)
    ELSE IF Len(obs) = 0
         THEN \* hidden_state.repeat(0, 1).view(0, 0, -1): RuntimeError
              {[raised |-> TRUE, rows |-> <<>>]}
    ELSE Fast_occupancy(s, obs, [i \in 1..Len(obs) |-> Masked(h, one_cold(i, Len(obs)))])

\* FastPooling.forward up to grid (self.front is not read)
FastGrids(s, h, o1, o2) ==
    CASE s.type_ = "occupancy" -> Fast_occupancy(s, o2, None)
      [] s.type_ = "directional" -> Fast_directional(s, o1, o2)
      [] s.type_ = "social" -> Fast_social(s, h, o2)

----------------------------------------------------------------------------
\* The arguments the model draws.
Classes == {"FastPooling", "Pooling"}
Types == {"occupancy", "directional", "social"}
NValues == {1, DefaultN}
CellSides == {DefaultCellSide}
PoolSizes == 1..MaxPool
BlurSizes == 0..MaxBlur

\* The lattice points of the triangle (0,0), (MaxCoord,0), (MaxCoord,MaxCoord)
Positions == {p \in (0..MaxCoord) \X (0..MaxCoord) : p[2] <= p[1]}

\* obs2 - obs1 of an observed agent: one step along an axis
Velocities == {<<0, 1>>, <<1, 0>>}

\* obs2: up to MaxAgents agents, each at one of points
Observations(points) == UNION {[1..k -> points] : k \in 0..MaxAgents}

\* obs1 for obs2: an agent missing now was missing before; where forward does
\* not read obs1 one value stands for all.
Previous(o2, read) ==
    {[i \in 1..Len(o2) |-> IF IsNaN(o2[i]) THEN NaNxy ELSE VecSub(o2[i], v[i])] :
        v \in [1..Len(o2) -> IF read THEN Velocities ELSE {<<0, 1>>}]}

\* hidden_state: agent i's vector is i in every component
HiddenStates(k) == [i \in 1..k |-> [c \in 1..HiddenDim |-> i]]

\* Whether forward reads obs1
ReadsObs1(s) == s.type_ = "directional" \/ (s.cls = "Pooling" /\ s.front)

NoGrid == [raised |-> FALSE, rows |-> <<>>]

----------------------------------------------------------------------------
Init ==
    /\ pc = "new"
    /\ self = NoEngine
    /\ hidden_state = <<>>
    /\ obs1 = <<>>
    /\ obs2 = <<>>
    /\ descriptors = <<>>
    /\ grid = NoGrid

\* FastPooling(...) or Pooling(...): __init__ stores whatever it is given.
Construct(pool_sizes) ==
    /\ pc = "new"
    /\ \E cls \in Classes, cell_side \in CellSides, n \in NValues, type_ \in Types,
          pool_size \in pool_sizes, blur_size \in BlurSizes, front \in BOOLEAN :
            self' = Init_(cls, cell_side, n, HiddenDim, type_, pool_size, blur_size, front)
    /\ pc' = "ready"
    /\ UNCHANGED <<hidden_state, obs1, obs2, descriptors, grid>>

\* FastPooling.forward(hidden_state, obs1, obs2), up to grid.  The caller
\* passes fully observed positions.  forward assigns no attribute: one call
\* per behaviour shows every call.
FastPooling_forward ==
    /\ pc = "ready"
    /\ self.cls = "FastPooling"
    /\ \E o2 \in Observations(Positions) :
       \E o1 \in Previous(o2, ReadsObs1(self)) :
       \E g \in FastGrids(self, HiddenStates(Len(o2)), o1, o2) :
            /\ obs2' = o2
            /\ obs1' = o1
            /\ hidden_state' = HiddenStates(Len(o2))
            /\ grid' = g
            /\ descriptors' = [i \in 1..Len(g.rows) |-> Returned(g.rows[i])]
    /\ pc' = "done"
    /\ UNCHANGED self

\* Pooling.forward(hidden_state, obs1, obs2), up to grid.
Pooling_forward ==
    /\ pc = "ready"
    /\ self.cls = "Pooling"
    /\ \E o2 \in Observations(Positions \cup {NaNxy}) :
       \E o1 \in Previous(o2, ReadsObs1(self)) :
       \E results \in PoolingResults(self, HiddenStates(Len(o2)), o1, o2) :
            /\ obs2' = o2
            /\ obs1' = o1
            /\ hidden_state' = HiddenStates(Len(o2))
            /\ descriptors' = Evaluated(results)
            /\ grid' = Stack(results)
    /\ pc' = "done"
    /\ UNCHANGED self

Next ==
    \/ Construct(PoolSizes)
    \/ FastPooling_forward
    \/ Pooling_forward

Spec == Init /\ [][Next]_vars

\* The same machine with the constructor drawing pool_size from 0 on.
NextAnyPoolSize ==
    \/ Construct(0..MaxPool)
    \/ FastPooling_forward
    \/ Pooling_forward

SpecAnyPoolSize == Init /\ [][NextAnyPoolSize]_vars

----------------------------------------------------------------------------
\* What the properties below speak of.
Done == pc = "done"

N == Len(obs2)

Observed(i) == ~IsNaN(obs2[i])

FullyObserved == \A i \in 1..N : Observed(i)

\* A sequence without its j-th element, and where the i-th element lands
RemoveAt(q, j) == Masked(q, one_cold(j, Len(q)))

Shifted(i, j) == IF i < j THEN i ELSE i - 1

\* oij of neighbour j as ego i's engine computes it
EngineOij(i, j) ==
    IF self.cls = "Pooling"
    THEN PoolingOij(self, obs2[i], obs2[j], obs1[i])
    ELSE Distance(self, VecSub(obs2[j], obs2[i]))

NeighbourInRange(i, j) == InRange(self, EngineOij(i, j))

\* The feature of neighbour j in ego i's grid
Feature(i, j) ==
    CASE self.type_ = "occupancy" -> Ones(1)
      [] self.type_ = "directional" ->
            VecSub(VecSub(obs2[j], obs1[j]), VecSub(obs2[i], obs1[i]))
      [] self.type_ = "social" -> hidden_state[j]

\* The results engine s can give agent i on a step
RowsOf(s, h, o1, o2, i) ==
    IF s.cls = "Pooling"
    THEN {r[i] : r \in {q \in PoolingResults(s, h, o1, o2) : Len(q) >= i}}
    ELSE {Returned(g.rows[i]) : g \in {f \in FastGrids(s, h, o1, o2) : ~f.raised}}

\* The grids engine s can give on a step
GridsOf(s, h, o1, o2) ==
    IF s.cls = "Pooling"
    THEN {Stack(r) : r \in PoolingResults(s, h, o1, o2)}
    ELSE FastGrids(s, h, o1, o2)

OneHot(len, at, v) == [k \in 1..len |-> IF k = at THEN v ELSE 0] \o <<>>

\* floor(d / (cell_side / pool_size) + n * pool_size / 2), as the claims write it
SubCell(d) ==
    (2 * d * self.pool_size + self.n * self.pool_size * self.cell_side)
        \div (2 * self.cell_side)

\* |d| within n * cell_side / 2: the sub-cell lies in [0, n * pool_size)
WithinHalf(d) == -(self.n * self.cell_side) <= 2 * d /\ 2 * d < self.n * self.cell_side

\* No blurring is asked for, or a kernel of 1, which is the identity
Unblurred == self.blur_size <= 1

----------------------------------------------------------------------------
\* C1.  Whatever the engine and the step, the grid comes back, without an
\* exception, as one row per agent, each of n*n*pooling_dim entries; a step
\* of no agent gives no row.
C1_ShapeAlways ==
    Done =>
        /\ ~grid.raised
        /\ Len(grid.rows) = N
        /\ \A i \in 1..Len(grid.rows) :
                Len(grid.rows[i]) = self.n * self.n * self.pooling_dim

\* C2.  On a fully observed step of at least one agent, front off, the other
\* engine built with the same arguments can give the same grid (entry by
\* entry, each in its own unit).
SameGrid(g1, den1, g2, den2) ==
    /\ ~g1.raised /\ ~g2.raised
    /\ Len(g1.rows) = Len(g2.rows)
    /\ \A i \in 1..Len(g1.rows) :
            /\ Len(g1.rows[i]) = Len(g2.rows[i])
            /\ \A e \in 1..Len(g1.rows[i]) : g1.rows[i][e] * den2 = g2.rows[i][e] * den1

C2_EnginesAgree ==
    (Done /\ N >= 1 /\ FullyObserved /\ ~self.front) =>
        LET other == [self EXCEPT !.cls = IF self.cls = "Pooling" THEN "FastPooling"
                                          ELSE "Pooling"]
        IN \E g \in GridsOf(other, hidden_state, obs1, obs2) :
                SameGrid(grid, Den(self), g, Den(other))

\* C3.  A neighbour out of range of an ego leaves the ego's descriptor what
\* it is on the step without that neighbour.
C3_RangeExclusion ==
    Done =>
        \A i \in 1..Len(descriptors) : \A j \in 1..N :
            (i # j /\ Observed(i) /\ Observed(j) /\ ~NeighbourInRange(i, j)) =>
                descriptors[i] \in RowsOf(self, RemoveAt(hidden_state, j),
                                          RemoveAt(obs1, j), RemoveAt(obs2, j),
                                          Shifted(i, j))

Degenerate(i) ==
    /\ Observed(i)
    /\ \A j \in (1..N) \ {i} : IsNaN(obs2[j]) \/ ~NeighbourInRange(i, j)

C5_DegenerateIsZero ==
    Done =>
        \A i \in 1..N :
            Degenerate(i) =>
                /\ i <= Len(descriptors)
                /\ descriptors[i] = Returned(Zeros(self.n * self.n * self.pooling_dim))

C5_Witness ==
    /\ Done /\ self.cls = "FastPooling" /\ self.type_ = "social" /\ N = 3
    /\ Degenerate(1)
    /\ descriptors[1] = Returned(Zeros(self.n * self.n * self.pooling_dim))
    /\ descriptors[2].row # ZeroDescriptor(self)

\* C6.  With pool_size 1 and no blur, where two neighbours in range of an ego
\* fall in one cell, the descriptor holds the feature of the later one of the
\* list at that cell.
C6_LastWrite ==
    (Done /\ self.pool_size = 1 /\ Unblurred) =>
        \A i \in 1..Len(descriptors) : \A j \in 1..N : \A k \in 1..N :
            ( /\ j < k /\ i # j /\ i # k
              /\ Observed(i) /\ Observed(j) /\ Observed(k)
              /\ NeighbourInRange(i, j) /\ NeighbourInRange(i, k)
              /\ LinearIndex(self, EngineOij(i, j)) = LinearIndex(self, EngineOij(i, k))
              /\ \A l \in (k + 1)..N :
                    l # i => (IsNaN(obs2[l]) \/ ~NeighbourInRange(i, l)
                              \/ LinearIndex(self, EngineOij(i, l))
                                    # LinearIndex(self, EngineOij(i, k))) ) =>
                /\ ~descriptors[i].raised
                /\ \A c \in 1..self.pooling_dim :
                        descriptors[i].row[(c - 1) * self.n * self.n
                                           + LinearIndex(self, EngineOij(i, k)) + 1]
                            = Feature(i, k)[c]

\* C7.  Occupancy, front off, two observed agents: where the other agent is in
\* range of the ego at offset (dx, dy), the ego's descriptor is 1 at
\* cx*n + cy, with cx = floor(SubCell(dx) / pool_size) and cy likewise, and 0
\* elsewhere.  As the claim has it: whatever blur_size.
SingleNeighbour(i) ==
    LET d == VecSub(obs2[3 - i], obs2[i])
    IN (WithinHalf(d[1]) /\ WithinHalf(d[2])) =>
            /\ i <= Len(descriptors)
            /\ descriptors[i] =
                 Returned(OneHot(self.n * self.n,
                                 (SubCell(d[1]) \div self.pool_size) * self.n
                                    + (SubCell(d[2]) \div self.pool_size) + 1,
                                 1))

QuarterTurn(p, c) ==
    IF IsNaN(p) THEN p ELSE <<c[1] - (p[2] - c[2]), c[2] + (p[1] - c[1])>>

RECURSIVE Turned(_, _, _)
Turned(p, c, q) == IF q = 0 THEN p ELSE Turned(QuarterTurn(p, c), c, q - 1)

TurnedStep(o, c, q) == [k \in 1..Len(o) |-> Turned(o[k], c, q)] \o <<>>

C8_RotationInvariant ==
    (Done /\ self.cls = "Pooling" /\ self.front) =>
        \A i \in 1..Len(descriptors) :
            (Observed(i) /\ obs1[i] # obs2[i]) =>
                \A q \in 1..3 :
                    descriptors[i] \in RowsOf(self, hidden_state,
                                              TurnedStep(obs1, obs2[i], q),
                                              TurnedStep(obs2, obs2[i], q), i)

\* C9.  No engine exists whose cell_side, n or pool_size is not positive.
C9_NoInvalidEngine ==
    pc # "new" => (self.cell_side > 0 /\ self.n > 0 /\ self.pool_size > 0)

\* C10.  Pooling, front on, occupancy, two observed agents, no blur: with the
\* other agent at lateral offset l and forward offset f # 0 of the ego's
\* heading, the ego's descriptor is 1 at the cell of (l, f) and 0 elsewhere,
\* or all 0 out of range.  As the claim has it: both axes centred on the ego.
Heading(i) == VecSub(obs2[i], obs1[i])

Lateral(i, j) ==
    LET r == VecSub(obs2[j], obs2[i])
    IN r[1] * Heading(i)[2] - r[2] * Heading(i)[1]

Forward(i, j) ==
    LET r == VecSub(obs2[j], obs2[i])
    IN r[1] * Heading(i)[1] + r[2] * Heading(i)[2]

FrontPair ==
    /\ Done /\ self.cls = "Pooling" /\ self.front /\ self.type_ = "occupancy"
    /\ N = 2 /\ FullyObserved /\ Unblurred

====
